---- MODULE Spec2Model ----
(***************************************************************************)
(* Model of src/v2/codegen/object.rs: the ApiObjectBuilder view of an API  *)
(* object and one operation, its field/parameter unifier                   *)
(* (struct_fields_iter), the typestate generic list                        *)
(* (write_generics_if_necessary) and the container planner                 *)
(* (needs_container, has_atleast_one_field).                               *)
(*                                                                         *)
(* Text is a sequence of strings: a string literal of the source is one    *)
(* element, an identifier that the code converts (camel case, snake case)  *)
(* is spelled character by character, so that a conversion is computed.    *)
(* Option<T> is a sequence of length 0 (None) or 1 (Some).                 *)
(***************************************************************************)
EXTENDS Integers, Sequences, FiniteSets, TLC

VARIABLES b, pc, queue, set, fields, f, ret, args

vars == <<b, pc, queue, set, fields, f, ret, args>>

(***************************************************************************)
(* Bounds and input domains                                                *)
(***************************************************************************)

None == <<>>

Some(x) == <<x>>

\* Largest number of parameters (global + local) plus object fields of a builder.
MaxProps == 3

\* Wire names of fields and parameters, spelled by character.
Names ==
    { <<"i", "d">>,
      <<"p", "e", "t", "_", "t", "a", "g">>,
      <<"p", "e", "t", "T", "a", "g">> }

\* The names the unifier is run on.
UnifyNames == { <<"i", "d">>, <<"p", "e", "t", "_", "t", "a", "g">> }

TyPaths == {"String", "i64"}

\* Parameter (the fields the unifier and the planners read), documented as d.
ParametersOf(N, T, d) ==
    [name : N, description : {Some(d)}, ty_path : T, required : BOOLEAN]

\* ObjectField (the fields the unifier and the planners read).
ObjectFieldsOf(N, T) ==
    [name : N, ty_path : T, description : {None}, is_required : BOOLEAN]

SeqsOfLen(S, n) == [1..n -> S]

\* ApiObjectBuilder: every builder with at most MaxProps parameters and fields,
\* names in N, types in T, needs_any in A.  Path-level parameters are documented
\* "path doc", operation-level ones "operation doc".  The builder is the first
\* (idx 0) builder of object Pet, for a GET operation without an operation id;
\* method holds what HttpMethod's Display writes.
BuildersOver(N, T, A) ==
    UNION { UNION { UNION {
        [fields : SeqsOfLen(ObjectFieldsOf(N, T), nf),
         global_params : SeqsOfLen(ParametersOf(N, T, "path doc"), ng),
         local_params : SeqsOfLen(ParametersOf(N, T, "operation doc"), nl),
         body_required : BOOLEAN,
         needs_any : A,
         helper_module_prefix : {<<"crate::">>},
         object : {<<"Pet">>},
         method : {Some(<<"G", "e", "t">>)},
         op_id : {None},
         idx : {0},
         multiple_builders_exist : {FALSE}]
        : nf \in 0..(MaxProps - ng - nl) }
        : nl \in 0..(MaxProps - ng) }
        : ng \in 0..MaxProps }

(***************************************************************************)
(* Property                                                                *)
(***************************************************************************)

is_required(prop) == prop \in {"RequiredField", "RequiredParam"}

is_parameter(prop) == prop \in {"RequiredParam", "OptionalParam"}

is_field(prop) == prop \in {"RequiredField", "OptionalField"}

(***************************************************************************)
(* struct_fields_iter                                                      *)
(***************************************************************************)

\* field_iter that requires a field whatever body_required is.
FieldToStructField_IgnoreBody(body_required, field) ==
    [name |-> field.name,
     ty |-> field.ty_path,
     prop |-> IF field.is_required THEN "RequiredField" ELSE "OptionalField",
     desc |-> field.description,
     overridden |-> FALSE]

\* The closure of field_iter: an object field as a StructField.
FieldToStructField(body_required, field) ==
    [name |-> field.name,
     ty |-> field.ty_path,
     prop |-> IF body_required /\ field.is_required
              THEN "RequiredField" ELSE "OptionalField",
     desc |-> field.description,
     overridden |-> FALSE]

\* A parameter as a StructField (the record built inside the scan closure).
ParamToStructField(param) ==
    [name |-> param.name,
     ty |-> param.ty_path,
     prop |-> IF param.required THEN "RequiredParam" ELSE "OptionalParam",
     desc |-> param.description,
     overridden |-> FALSE]

\* The scan closure of param_iter: the new HashSet and the Option it yields.
ScanParam(seen, param) ==
    IF param.name \in seen
    THEN [set |-> seen, item |-> None]
    ELSE [set |-> seen \cup {param.name}, item |-> Some(ParamToStructField(param))]

\* Index of the first accumulated entry of that name, 0 when there is none.
FindByName(vec, name) ==
    IF \E i \in 1..Len(vec) : vec[i].name = name
    THEN CHOOSE i \in 1..Len(vec) :
            /\ vec[i].name = name
            /\ \A j \in 1..(i - 1) : vec[j].name # name
    ELSE 0

\* A collision loop that pushes every entry.
CollisionStep_AlwaysPush(vec, field) == Append(vec, field)

\* A collision loop that flags the earlier entry whatever the types are.
CollisionStep_FlagAlways(vec, field) ==
    LET i == FindByName(vec, field.name)
    IN  IF i # 0
        THEN [vec EXCEPT ![i].overridden = TRUE]
        ELSE Append(vec, field)

\* The body of the collision loop: the accumulator after one entry.
CollisionStep(vec, field) ==
    LET i == FindByName(vec, field.name)
    IN  IF i # 0
        THEN IF vec[i].ty = field.ty
             THEN [vec EXCEPT ![i].overridden = TRUE]
             ELSE vec
        ELSE Append(vec, field)

\* A chain that draws the local parameters before the global ones.
Chain_LocalFirst(builder) ==
    [i \in 1..Len(builder.local_params) |->
        [kind |-> "param", v |-> builder.local_params[i]]]
    \o [i \in 1..Len(builder.global_params) |->
        [kind |-> "param", v |-> builder.global_params[i]]]
    \o [i \in 1..Len(builder.fields) |->
        [kind |-> "field", v |-> builder.fields[i]]]

\* What the chained iterator draws from: global, then local parameters, then fields.
Chain(builder) ==
    [i \in 1..Len(builder.global_params) |->
        [kind |-> "param", v |-> builder.global_params[i]]]
    \o [i \in 1..Len(builder.local_params) |->
        [kind |-> "param", v |-> builder.local_params[i]]]
    \o [i \in 1..Len(builder.fields) |->
        [kind |-> "field", v |-> builder.fields[i]]]

\* One pull of param_iter.chain(field_iter) and the loop body on what it yields.
IterStep(st, body_required, item) ==
    IF item.kind = "param"
    THEN LET s == ScanParam(st.set, item.v)
         IN  [set |-> s.set,
              fields |-> IF s.item = None THEN st.fields
                         ELSE CollisionStep(st.fields, s.item[1])]
    ELSE [set |-> st.set,
          fields |-> CollisionStep(st.fields, FieldToStructField(body_required, item.v))]

RECURSIVE IterRun(_, _, _)
IterRun(st, body_required, q) ==
    IF q = <<>> THEN st
    ELSE IterRun(IterStep(st, body_required, Head(q)), body_required, Tail(q))

\* struct_fields_iter as a function of the builder: the Vec it iterates over.
struct_fields_iter(builder) ==
    IterRun([set |-> {}, fields |-> <<>>], builder.body_required, Chain(builder)).fields

(***************************************************************************)
(* Case conversion (heck's CamelCase and SnekCase, as object.rs uses them) *)
(***************************************************************************)

\* char::to_uppercase on the lower-case letters.
UPPER ==
    [a |-> "A", b |-> "B", c |-> "C", d |-> "D", e |-> "E", f |-> "F",
     g |-> "G", h |-> "H", i |-> "I", j |-> "J", k |-> "K", l |-> "L",
     m |-> "M", n |-> "N", o |-> "O", p |-> "P", q |-> "Q", r |-> "R",
     s |-> "S", t |-> "T", u |-> "U", v |-> "V", w |-> "W", x |-> "X",
     y |-> "Y", z |-> "Z"]

\* char::to_lowercase on the upper-case letters.
LOWER ==
    [A |-> "a", B |-> "b", C |-> "c", D |-> "d", E |-> "e", F |-> "f",
     G |-> "g", H |-> "h", I |-> "i", J |-> "j", K |-> "k", L |-> "l",
     M |-> "m", N |-> "n", O |-> "o", P |-> "p", Q |-> "q", R |-> "r",
     S |-> "s", T |-> "t", U |-> "u", V |-> "v", W |-> "w", X |-> "x",
     Y |-> "y", Z |-> "z"]

IsLower(c) == c \in DOMAIN UPPER

IsUpper(c) == c \in DOMAIN LOWER

IsDigit(c) == c \in {"0", "1", "2", "3", "4", "5", "6", "7", "8", "9"}

IsAlphanumeric(c) == IsLower(c) \/ IsUpper(c) \/ IsDigit(c)

ToUpper(c) == IF IsLower(c) THEN UPPER[c] ELSE c

ToLower(c) == IF IsUpper(c) THEN LOWER[c] ELSE c

\* The words of an identifier: cut at every character that is not alphanumeric,
\* before an upper-case letter that follows a lower-case one, and before the last
\* upper-case letter of a run that a lower-case letter follows.
RECURSIVE SplitWords(_, _, _, _)
SplitWords(s, i, words, cur) ==
    IF i > Len(s)
    THEN IF cur = <<>> THEN words ELSE Append(words, cur)
    ELSE LET c == s[i]
             last == cur[Len(cur)]
         IN  IF ~IsAlphanumeric(c)
             THEN SplitWords(s, i + 1,
                             IF cur = <<>> THEN words ELSE Append(words, cur), <<>>)
             ELSE IF /\ cur # <<>>
                     /\ IsUpper(c)
                     /\ \/ IsLower(last)
                        \/ /\ IsUpper(last)
                           /\ i < Len(s)
                           /\ IsLower(s[i + 1])
                  THEN SplitWords(s, i + 1, Append(words, cur), <<c>>)
                  ELSE SplitWords(s, i + 1, words, Append(cur, c))

Capitalize(word) ==
    [i \in 1..Len(word) |-> IF i = 1 THEN ToUpper(word[i]) ELSE ToLower(word[i])]

Lowercase(word) == [i \in 1..Len(word) |-> ToLower(word[i])]

RECURSIVE JoinWords(_, _)
JoinWords(words, sep) ==
    IF words = <<>> THEN <<>>
    ELSE IF Len(words) = 1 THEN words[1]
    ELSE words[1] \o sep \o JoinWords(Tail(words), sep)

to_camel_case(s) ==
    LET words == SplitWords(s, 1, <<>>, <<>>)
    IN  JoinWords([i \in 1..Len(words) |-> Capitalize(words[i])], <<>>)

to_snek_case(s) ==
    LET words == SplitWords(s, 1, <<>>, <<>>)
    IN  JoinWords([i \in 1..Len(words) |-> Lowercase(words[i])], <<"_">>)

(***************************************************************************)
(* write_generics_if_necessary                                             *)
(***************************************************************************)

\* emitter::ANY_GENERIC_PARAMETER, the name of the Any generic slot.
ANY_GENERIC_PARAMETER == <<"Any">>

\* TypeParameters
Generic == <<"Generic">>

ChangeOne(n) == <<"ChangeOne", n>>

ReplaceAll == <<"ReplaceAll">>

ChangeAll == <<"ChangeAll">>

\* A filter that lets every entry through.
FilterRequired_All(vec) == vec

\* Iterator::filter(|f| f.prop.is_required()) on the unified entries.
RECURSIVE FilterRequired(_)
FilterRequired(vec) ==
    IF vec = <<>> THEN <<>>
    ELSE IF is_required(Head(vec).prop)
         THEN <<Head(vec)>> \o FilterRequired(Tail(vec))
         ELSE FilterRequired(Tail(vec))

\* A closure that matches ChangeOne on the camel-cased names.
WriteMarker_CamelCompare(builder, out, i, field, params) ==
    LET out1 == IF i = 0 THEN out \o <<"<">> ELSE out \o <<", ">>
        exists == out1 \o builder.helper_module_prefix \o <<"generics::">>
                    \o to_camel_case(field.name) \o <<"Exists">>
    IN  IF params[1] = "ChangeOne"
            /\ to_camel_case(field.name) = to_camel_case(params[2])
        THEN exists
        ELSE IF params = <<"ChangeAll">>
        THEN exists
        ELSE IF params = <<"ReplaceAll">>
        THEN out1 \o builder.helper_module_prefix \o <<"generics::">> \o <<"Missing">>
                \o to_camel_case(field.name)
        ELSE out1 \o to_camel_case(field.name)

\* A closure whose ReplaceAll arm writes the prefix and forgets `Missing`.
WriteMarker_NoMissing(builder, out, i, field, params) ==
    LET out1 == IF i = 0 THEN out \o <<"<">> ELSE out \o <<", ">>
        exists == out1 \o builder.helper_module_prefix \o <<"generics::">>
                    \o to_camel_case(field.name) \o <<"Exists">>
    IN  IF params[1] = "ChangeOne" /\ field.name = params[2]
        THEN exists
        ELSE IF params = <<"ChangeAll">>
        THEN exists
        ELSE IF params = <<"ReplaceAll">>
        THEN out1 \o builder.helper_module_prefix \o <<"generics::">>
                \o to_camel_case(field.name)
        ELSE out1 \o to_camel_case(field.name)

\* The try_for_each closure: what it writes for the i-th (from 0) required field.
WriteMarker(builder, out, i, field, params) ==
    LET out1 == IF i = 0 THEN out \o <<"<">> ELSE out \o <<", ">>
        exists == out1 \o builder.helper_module_prefix \o <<"generics::">>
                    \o to_camel_case(field.name) \o <<"Exists">>
    IN  IF params[1] = "ChangeOne" /\ field.name = params[2]
        THEN exists
        ELSE IF params = ChangeAll
        THEN exists
        ELSE IF params = ReplaceAll
        THEN out1 \o builder.helper_module_prefix \o <<"generics::">> \o <<"Missing">>
                \o to_camel_case(field.name)
        ELSE out1 \o to_camel_case(field.name)

RECURSIVE WriteMarkers(_, _, _, _, _)
WriteMarkers(builder, st, i, req, params) ==
    IF i >= Len(req) THEN st
    ELSE WriteMarkers(builder,
                      [f |-> WriteMarker(builder, st.f, i, req[i + 1], params),
                       num_generics |-> st.num_generics + 1],
                      i + 1, req, params)

\* An Any slot that always carries the default placeholder.
WriteAnyAndClose_DefaultOnly(builder, st, any_value) ==
    LET st1 == IF builder.needs_any
               THEN [f |-> (IF st.num_generics > 0
                            THEN st.f \o <<", ">> ELSE st.f \o <<"<">>)
                           \o ANY_GENERIC_PARAMETER,
                     num_generics |-> st.num_generics + 1]
               ELSE st
    IN  [f |-> IF st1.num_generics > 0 THEN st1.f \o <<">">> ELSE st1.f,
         ret |-> st1.num_generics]

\* The Any slot and the closing bracket, after the markers.
WriteAnyAndClose(builder, st, any_value) ==
    LET st1 == IF builder.needs_any
               THEN [f |-> (IF st.num_generics > 0
                            THEN st.f \o <<", ">> ELSE st.f \o <<"<">>)
                           \o (IF any_value = None
                               THEN ANY_GENERIC_PARAMETER ELSE any_value[1]),
                     num_generics |-> st.num_generics + 1]
               ELSE st
    IN  [f |-> IF st1.num_generics > 0 THEN st1.f \o <<">">> ELSE st1.f,
         ret |-> st1.num_generics]

\* write_generics_if_necessary: the formatter afterwards and the count returned.
write_generics_if_necessary(builder, out, any_value, params) ==
    WriteAnyAndClose(
        builder,
        WriteMarkers(builder, [f |-> out, num_generics |-> 0], 0,
                     FilterRequired(struct_fields_iter(builder)), params),
        any_value)

(***************************************************************************)
(* has_atleast_one_field, needs_container                                  *)
(***************************************************************************)

\* A test that looks for required properties only.
has_atleast_one_field_RequiredOnly(builder) ==
    LET vec == struct_fields_iter(builder)
    IN  \E i \in 1..Len(vec) : is_required(vec[i].prop)

has_atleast_one_field(builder) ==
    LET vec == struct_fields_iter(builder)
    IN  \E i \in 1..Len(vec) : is_parameter(vec[i].prop) \/ is_required(vec[i].prop)

\* A planner that forgets that the body case needs a parameter.
needs_container_NoParamCount(builder) ==
    \/ \E i \in 1..Len(builder.local_params \o builder.global_params) :
            (builder.local_params \o builder.global_params)[i].required
    \/ /\ builder.body_required
       /\ \E i \in 1..Len(builder.fields) : builder.fields[i].is_required

\* A planner that wants a second parameter next to a required one.
needs_container_SecondParam(builder) ==
    \/ /\ \E i \in 1..Len(builder.local_params \o builder.global_params) :
            (builder.local_params \o builder.global_params)[i].required
       /\ Len(builder.local_params) + Len(builder.global_params) > 1
    \/ /\ builder.body_required
       /\ \E i \in 1..Len(builder.fields) : builder.fields[i].is_required
       /\ Len(builder.local_params) + Len(builder.global_params) > 0

needs_container(builder) ==
    \/ \E i \in 1..Len(builder.local_params \o builder.global_params) :
            (builder.local_params \o builder.global_params)[i].required
    \/ /\ builder.body_required
       /\ \E i \in 1..Len(builder.fields) : builder.fields[i].is_required
       /\ Len(builder.local_params) + Len(builder.global_params) > 0

(***************************************************************************)
(* Names of the builder and of its constructor                             *)
(***************************************************************************)

DIGITS == <<"0", "1", "2", "3", "4", "5", "6", "7", "8", "9">>

\* usize::to_string
RECURSIVE usize_to_string(_)
usize_to_string(n) ==
    IF n < 10 THEN <<DIGITS[n + 1]>>
    ELSE usize_to_string(n \div 10) \o <<DIGITS[(n % 10) + 1]>>

\* str::to_uppercase
to_uppercase(s) == [i \in 1..Len(s) |-> ToUpper(s[i])]

\* A naming that never numbers the functions.
constructor_fn_name_NoIndex(builder) ==
    IF builder.op_id # None
    THEN Some(to_snek_case(builder.op_id[1]))
    ELSE IF builder.method # None
    THEN Some(to_snek_case(builder.method[1]))
    ELSE None

constructor_fn_name(builder) ==
    IF builder.op_id # None
    THEN Some(to_snek_case(builder.op_id[1]))
    ELSE IF builder.method # None /\ ~builder.multiple_builders_exist
    THEN Some(to_snek_case(builder.method[1]))
    ELSE IF builder.method # None
    THEN Some(to_snek_case(builder.method[1])
              \o (IF builder.idx > 0
                  THEN <<"_">> \o usize_to_string(builder.idx) ELSE <<>>))
    ELSE None

write_name(builder, out) ==
    out \o builder.object
        \o (IF builder.method # None THEN builder.method[1] ELSE <<>>)
        \o <<"Builder">>
        \o (IF builder.idx > 0 THEN usize_to_string(builder.idx) ELSE <<>>)

write_container_name(builder, out) == write_name(builder, out) \o <<"Container">>

\* ApiObject::write_any_generic
write_any_generic(out) == out \o <<"<">> \o ANY_GENERIC_PARAMETER \o <<">">>

(***************************************************************************)
(* Display for ApiObjectBuilder                                            *)
(***************************************************************************)

\* The grave accent character of the doc links (a string of the module cannot
\* hold the character itself).
GRAVE == "U+0060"

\* emitter::FILE_MARKER, the type path that stands for a file.
FILE_MARKER == "~file~"

\* write_wrapped_ty for a type path without Vec (every type path of the model):
\* the type is written as it is.
write_wrapped_ty(module_prefix, ty, delims, out) == out \o <<ty>>

write_body_field_if_required(builder, out) ==
    IF builder.body_required
    THEN LET out1 == out \o <<"\n    body: self::">> \o builder.object
         IN  (IF builder.needs_any THEN write_any_generic(out1) ELSE out1) \o <<",">>
    ELSE out

write_parameter_if_required(builder, prop, name, ty, delims, out) ==
    IF ~is_parameter(prop) THEN out
    ELSE LET out1 == out \o <<"\n    param_">> \o name \o <<": Option<">>
         IN  (IF ty = FILE_MARKER
              THEN out1 \o <<"std::path::PathBuf">>
              ELSE write_wrapped_ty(builder.helper_module_prefix, ty, delims, out1))
             \o <<">,">>

\* A closure that writes the parameter fields on the builder struct as well.
WriteField_ParamsOnBuilder(builder, needs_cont, st, field) ==
    LET cc == to_camel_case(field.name)
        sk == to_snek_case(field.name)
        container1 == IF needs_cont
                      THEN write_parameter_if_required(
                               builder, field.prop, sk, field.ty, <<>>, st.container)
                      ELSE st.container
        out1 == write_parameter_if_required(
                    builder, field.prop, sk, field.ty, <<>>, st.f)
    IN  [f |-> IF is_required(field.prop)
               THEN out1 \o <<"\n    ">>
                        \o (IF is_parameter(field.prop) THEN <<"_param">> ELSE <<>>)
                        \o <<"_">> \o sk \o <<": ">>
                        \o <<"core::marker::PhantomData<">> \o cc \o <<">,">>
               ELSE out1,
         container |-> container1]

\* The closure of the last try_for_each of fmt: the formatter and the container
\* string after one unified entry.
WriteField(builder, needs_cont, st, field) ==
    LET cc == to_camel_case(field.name)
        sk == to_snek_case(field.name)
        container1 == IF needs_cont
                      THEN write_parameter_if_required(
                               builder, field.prop, sk, field.ty, <<>>, st.container)
                      ELSE st.container
        out1 == IF needs_cont THEN st.f
                ELSE write_parameter_if_required(
                         builder, field.prop, sk, field.ty, <<>>, st.f)
    IN  [f |-> IF is_required(field.prop)
               THEN out1 \o <<"\n    ">>
                        \o (IF is_parameter(field.prop) THEN <<"_param">> ELSE <<>>)
                        \o <<"_">> \o sk \o <<": ">>
                        \o <<"core::marker::PhantomData<">> \o cc \o <<">,">>
               ELSE out1,
         container |-> container1]

RECURSIVE WriteFields(_, _, _, _)
WriteFields(builder, needs_cont, st, vec) ==
    IF vec = <<>> THEN st
    ELSE WriteFields(builder, needs_cont,
                     WriteField(builder, needs_cont, st, Head(vec)), Tail(vec))

\* <ApiObjectBuilder as Display>::fmt: the text written to an empty formatter.
fmt(builder) ==
    LET name == constructor_fn_name(builder)
        f1 == IF name # None /\ builder.method # None
              THEN <<"/// Builder ">> \o <<"created by [", GRAVE>> \o builder.object
                    \o <<"::">> \o name[1] \o <<GRAVE, "](./struct.">>
                    \o builder.object
                    \o <<".html#method.">> \o name[1]
                    \o <<") method for a ", GRAVE>>
                    \o to_uppercase(builder.method[1])
                    \o <<GRAVE, " operation associated with ", GRAVE>>
                    \o builder.object
                    \o <<GRAVE, ".\n">>
              ELSE <<"/// Builder ">> \o <<"for [", GRAVE>> \o builder.object
                    \o <<GRAVE, "](./struct.">> \o builder.object
                    \o <<".html) object.\n">>
        needs_cont == needs_container(builder)
        f2 == IF needs_cont THEN f1 \o <<"#[repr(transparent)]\n">> ELSE f1
        f3 == write_name(builder, f2 \o <<"#[derive(Debug, Clone)]\npub struct ">>)
        f4 == write_generics_if_necessary(builder, f3, None, Generic).f
        has_fields == has_atleast_one_field(builder)
        f5 == IF has_fields \/ builder.body_required \/ needs_cont
              THEN f4 \o <<" {">> ELSE f4
        c1 == write_container_name(
                  builder, <<"#[derive(Debug, Default, Clone)]\nstruct ">>)
        c2 == IF builder.needs_any THEN write_any_generic(c1) ELSE c1
        container == IF needs_cont
                     THEN write_body_field_if_required(builder, c2 \o <<" {">>)
                     ELSE <<>>
        i1 == write_container_name(builder, f5 \o <<"\n    inner: ">>)
        i2 == IF builder.needs_any THEN write_any_generic(i1) ELSE i1
        f6 == IF needs_cont
              THEN i2 \o <<",">>
              ELSE write_body_field_if_required(builder, f5)
        st == WriteFields(builder, needs_cont, [f |-> f6, container |-> container],
                          struct_fields_iter(builder))
        f7 == IF has_fields \/ builder.body_required
              THEN st.f \o <<"\n}\n">>
              ELSE st.f \o <<";\n">>
    IN  IF needs_cont
        THEN f7 \o <<"\n">> \o st.container \o <<"\n}\n">>
        ELSE f7

(***************************************************************************)
(* ApiObject::write_docs                                                   *)
(***************************************************************************)

\* Longest description, in characters.
MaxDocLen == 4

\* The characters of a description: a letter, the two brackets DOC_REGEX
\* matches, a blank and the line feed.
DocChars == {"a", "[", "]", " ", "\n"}

\* str::split(char): the pieces between the separators.
RECURSIVE str_split(_, _, _, _)
str_split(s, sep, parts, cur) ==
    IF s = <<>> THEN Append(parts, cur)
    ELSE IF Head(s) = sep
         THEN str_split(Tail(s), sep, Append(parts, cur), <<>>)
         ELSE str_split(Tail(s), sep, parts, Append(cur, Head(s)))

\* char::is_whitespace on the characters of the model.
IsWhitespace(c) == c \in {" ", "\t", "\n", "\r"}

\* str::trim_end
RECURSIVE trim_end(_)
trim_end(s) ==
    IF s # <<>> /\ IsWhitespace(s[Len(s)])
    THEN trim_end(SubSeq(s, 1, Len(s) - 1))
    ELSE s

\* DOC_REGEX.replace_all with the closure of write_docs: a backslash before
\* every bracket.
RECURSIVE replace_all(_)
replace_all(line) ==
    IF line = <<>> THEN <<>>
    ELSE (IF Head(line) = "[" THEN <<"\\", "[">>
          ELSE IF Head(line) = "]" THEN <<"\\", "]">>
          ELSE <<Head(line)>>)
         \o replace_all(Tail(line))

\* iter::repeat(' ').take(levels * 4)
Indent(levels) == [i \in 1..(levels * 4) |-> " "]

\* The try_for_each closure of write_docs: one source line.
WriteDocLine(out, indent, line) ==
    LET out1 == out \o <<"\n">> \o indent \o <<"///">>
    IN  IF line = <<>> THEN out1
        ELSE out1 \o <<" ">> \o trim_end(replace_all(line))

RECURSIVE WriteDocLines(_, _, _)
WriteDocLines(out, indent, lines) ==
    IF lines = <<>> THEN out
    ELSE WriteDocLines(WriteDocLine(out, indent, Head(lines)), indent, Tail(lines))

\* write_docs: the formatter afterwards.
write_docs(stuff, out, levels) ==
    IF stuff # None
    THEN WriteDocLines(out, Indent(levels), str_split(stuff[1], "\n", <<>>, <<>>))
            \o <<"\n">>
    ELSE out

(***************************************************************************)
(* The state machine                                                       *)
(***************************************************************************)

Init ==
    /\ b \in BuildersOver(UnifyNames, TyPaths, {FALSE})
    /\ pc = "idle"
    /\ queue = <<>>
    /\ set = {}
    /\ fields = <<>>
    /\ f = <<>>
    /\ ret = None
    /\ args = <<>>

\* struct_fields_iter is called: the iterators are built, the accumulator is empty.
StructFieldsIterCall ==
    /\ pc = "idle"
    /\ pc' = "struct_fields_iter"
    /\ queue' = Chain(b)
    /\ set' = {}
    /\ fields' = <<>>
    /\ UNCHANGED <<b, f, ret, args>>

\* One iteration of `for field in param_iter.chain(field_iter)`.
StructFieldsIterLoop ==
    /\ pc = "struct_fields_iter"
    /\ queue # <<>>
    /\ LET st == IterStep([set |-> set, fields |-> fields], b.body_required, Head(queue))
       IN  /\ set' = st.set
           /\ fields' = st.fields
    /\ queue' = Tail(queue)
    /\ UNCHANGED <<b, pc, f, ret, args>>

\* The loop is over: fields.into_iter() is returned.
StructFieldsIterReturn ==
    /\ pc = "struct_fields_iter"
    /\ queue = <<>>
    /\ pc' = "struct_fields_iter_done"
    /\ ret' = Some(fields)
    /\ UNCHANGED <<b, queue, set, fields, f, args>>

Next ==
    \/ StructFieldsIterCall
    \/ StructFieldsIterLoop
    \/ StructFieldsIterReturn

Spec == Init /\ [][Next]_vars

\* The rendering operations are run on builders over all of Names.
InitRender ==
    /\ b \in BuildersOver(Names, {"String"}, BOOLEAN)
    /\ pc = "idle"
    /\ queue = <<>>
    /\ set = {}
    /\ fields = <<>>
    /\ f = <<>>
    /\ ret = None
    /\ args = <<>>

\* The any_value arguments write_generics_if_necessary is called with.
AnyValues == {None, Some(<<"serde_json::Value">>)}

\* The TypeParameters it is called with: ChangeOne names any name, used or not.
TypeParameterValues ==
    {Generic, ReplaceAll, ChangeAll} \cup {ChangeOne(n) : n \in Names}

\* write_generics_if_necessary(f, any_value, params) on an empty formatter.
WriteGenericsIfNecessary ==
    /\ pc = "idle"
    /\ \E any_value \in AnyValues, params \in TypeParameterValues :
        LET r == write_generics_if_necessary(b, <<>>, any_value, params)
        IN  /\ f' = r.f
            /\ ret' = Some(r.ret)
            /\ args' = <<any_value, params>>
    /\ pc' = "write_generics_if_necessary"
    /\ UNCHANGED <<b, queue, set, fields>>

HasAtleastOneField ==
    /\ pc = "idle"
    /\ ret' = Some(has_atleast_one_field(b))
    /\ pc' = "has_atleast_one_field"
    /\ UNCHANGED <<b, queue, set, fields, f, args>>

NeedsContainer ==
    /\ pc = "idle"
    /\ ret' = Some(needs_container(b))
    /\ pc' = "needs_container"
    /\ UNCHANGED <<b, queue, set, fields, f, args>>

\* The builder is rendered into an empty formatter.
Fmt ==
    /\ pc = "idle"
    /\ f' = fmt(b)
    /\ pc' = "fmt"
    /\ UNCHANGED <<b, queue, set, fields, ret, args>>

NextRender ==
    \/ WriteGenericsIfNecessary
    \/ HasAtleastOneField
    \/ NeedsContainer
    \/ Fmt

SpecRender == InitRender /\ [][NextRender]_vars

\* The builder of the specifications that render no builder.
NoBuilder ==
    [fields |-> <<>>, global_params |-> <<>>, local_params |-> <<>>,
     body_required |-> FALSE, needs_any |-> FALSE,
     helper_module_prefix |-> <<"crate::">>, object |-> <<"Pet">>,
     method |-> None, op_id |-> None, idx |-> 0,
     multiple_builders_exist |-> FALSE]

\* The descriptions write_docs is given: none, or a text of at most MaxDocLen
\* characters.
DocDescriptions ==
    {None} \cup {Some(d) : d \in UNION {[1..n -> DocChars] : n \in 0..MaxDocLen}}

\* write_docs is called for an object (levels 0) or for one of its fields (1):
\* args holds the description and the levels.
InitDocs ==
    /\ b = NoBuilder
    /\ pc = "idle"
    /\ queue = <<>>
    /\ set = {}
    /\ fields = <<>>
    /\ f = <<>>
    /\ ret = None
    /\ args \in DocDescriptions \X {0, 1}

\* write_docs(stuff, f, levels) on an empty formatter.
WriteDocs ==
    /\ pc = "idle"
    /\ f' = write_docs(args[1], <<>>, args[2])
    /\ pc' = "write_docs"
    /\ UNCHANGED <<b, queue, set, fields, ret, args>>

NextDocs == WriteDocs

SpecDocs == InitDocs /\ [][NextDocs]_vars

\* Largest index of a builder.
MaxIdx == 11

\* The operation ids and the methods of the builders that are named.
OpIds == {<<"g", "e", "t", "P", "e", "t">>, <<"l", "i", "s", "t">>}

HttpMethods == {<<"G", "e", "t">>, <<"P", "o", "s", "t">>}

\* constructor_fn_name reads op_id, method, multiple_builders_exist and idx of
\* the builder, each of them set freely by the caller.
InitName ==
    /\ b \in {[NoBuilder EXCEPT !.op_id = o, !.method = m, !.idx = i,
                                !.multiple_builders_exist = x] :
                o \in {None} \cup {Some(n) : n \in OpIds},
                m \in {None} \cup {Some(n) : n \in HttpMethods},
                i \in 0..MaxIdx,
                x \in BOOLEAN}
    /\ pc = "idle"
    /\ queue = <<>>
    /\ set = {}
    /\ fields = <<>>
    /\ f = <<>>
    /\ ret = None
    /\ args = <<>>

ConstructorFnName ==
    /\ pc = "idle"
    /\ ret' = Some(constructor_fn_name(b))
    /\ pc' = "constructor_fn_name"
    /\ UNCHANGED <<b, queue, set, fields, f, args>>

NextName == ConstructorFnName

SpecName == InitName /\ [][NextName]_vars

(***************************************************************************)
(* Properties of the unifier (checked under Spec)                          *)
(***************************************************************************)

NamesOf(seq) == {seq[i].name : i \in 1..Len(seq)}

\* Index of the first element of that name in a non-empty-matching sequence.
FirstNamed(seq, name) ==
    CHOOSE i \in 1..Len(seq) :
        /\ seq[i].name = name
        /\ \A j \in 1..(i - 1) : seq[j].name # name

\* C1: the list struct_fields_iter yields has exactly one entry for each distinct
\* name among the global parameters, the local parameters and the object fields,
\* and no two entries share a name (nor do two entries of the accumulator while
\* the loop runs).
C1_UnifiedNamesUnique ==
    /\ \A i, j \in 1..Len(fields) : fields[i].name = fields[j].name => i = j
    /\ pc = "struct_fields_iter_done" =>
        /\ \A i, j \in 1..Len(ret[1]) : ret[1][i].name = ret[1][j].name => i = j
        /\ NamesOf(ret[1]) =
            NamesOf(b.global_params) \cup NamesOf(b.local_params) \cup NamesOf(b.fields)

\* One name occurs as a global parameter, a local parameter and a field, and the
\* unifier has returned a single entry for it.
C1_Witness ==
    /\ pc = "struct_fields_iter_done"
    /\ Len(b.global_params) = 1 /\ Len(b.local_params) = 1 /\ Len(b.fields) = 1
    /\ b.global_params[1].name = b.local_params[1].name
    /\ b.global_params[1].name = b.fields[1].name
    /\ Len(ret[1]) = 1

\* C2: when a global and a local parameter share a name, the single unified entry
\* of that name carries the local parameter's type, description and requiredness
\* (the last local parameter of that name), whether the two types are equal or not.
C2_LocalOverridesGlobal ==
    pc = "struct_fields_iter_done" =>
        \A i \in 1..Len(b.global_params), j \in 1..Len(b.local_params) :
            (/\ b.global_params[i].name = b.local_params[j].name
             /\ \A k \in (j + 1)..Len(b.local_params) :
                    b.local_params[k].name # b.local_params[j].name)
            => \E e \in 1..Len(ret[1]) :
                /\ ret[1][e].name = b.local_params[j].name
                /\ ret[1][e].ty = b.local_params[j].ty_path
                /\ ret[1][e].desc = b.local_params[j].description
                /\ ret[1][e].prop =
                    (IF b.local_params[j].required
                     THEN "RequiredParam" ELSE "OptionalParam")

\* The entry the loop body receives in this step, if any: a parameter the scan
\* lets through, or a field.
ReachesLoop == Head(queue).kind = "field" \/ Head(queue).v.name \notin set

\* C9: in the collision loop, an entry whose name is already accumulated is never
\* added; the earlier entry is flagged overridden if the two types are equal, and
\* if they differ the accumulator is left entirely unchanged.  A flag is set only
\* by a later entry of the same name and the same type.
C9_CollisionLoop ==
    [][(pc = "struct_fields_iter" /\ pc' = "struct_fields_iter" /\ ReachesLoop) =>
        LET name == Head(queue).v.name
            ty == Head(queue).v.ty_path
        IN  /\ (\E i \in 1..Len(fields) : fields[i].name = name) =>
                /\ Len(fields') = Len(fields)
                /\ \A i \in 1..Len(fields) :
                    /\ fields[i].name = name /\ fields[i].ty = ty =>
                        fields'[i] = [fields[i] EXCEPT !.overridden = TRUE]
                    /\ fields[i].name = name /\ fields[i].ty # ty =>
                        fields' = fields
            /\ \A i \in 1..Len(fields') :
                fields'[i].overridden =>
                    /\ i <= Len(fields)
                    /\ \/ fields[i].overridden
                       \/ fields[i].name = name /\ fields[i].ty = ty
    ]_vars

\* A parameter has been flagged by a field of its name and type, and a second
\* field of that name and another type has been dropped without a change.
C9_Witness ==
    /\ pc = "struct_fields_iter_done"
    /\ Len(b.fields) = 2
    /\ b.fields[1].name = b.fields[2].name
    /\ b.fields[1].ty_path # b.fields[2].ty_path
    /\ Len(ret[1]) = 1
    /\ ret[1][1].overridden
    /\ is_parameter(ret[1][1].prop)

\* C10: a unified entry that comes from an object field is RequiredField iff
\* body_required and the field's is_required are both true, so without a required
\* body no field is required; an entry that comes from a parameter is
\* RequiredParam iff that parameter's required flag is true.
C10_RequiredProperty ==
    \A e \in 1..Len(fields) :
        /\ is_field(fields[e].prop) =>
            /\ fields[e].name \in NamesOf(b.fields)
            /\ fields[e].prop = "RequiredField" <=>
                (b.body_required
                 /\ b.fields[FirstNamed(b.fields, fields[e].name)].is_required)
            /\ ~b.body_required => fields[e].prop = "OptionalField"
        /\ is_parameter(fields[e].prop) =>
            LET params == b.global_params \o b.local_params
            IN  /\ fields[e].name \in NamesOf(params)
                /\ fields[e].prop = "RequiredParam" <=>
                    params[FirstNamed(params, fields[e].name)].required
        /\ is_field(fields[e].prop) \/ is_parameter(fields[e].prop)

\* Without a required body, a required field has given an optional entry next to
\* a required parameter.
C10_Witness ==
    /\ pc = "struct_fields_iter_done"
    /\ ~b.body_required
    /\ \E e \in 1..Len(ret[1]), k \in 1..Len(b.fields) :
        /\ ret[1][e].prop = "OptionalField"
        /\ b.fields[k].name = ret[1][e].name
        /\ b.fields[k].is_required
    /\ \E e \in 1..Len(ret[1]) : ret[1][e].prop = "RequiredParam"

\* Whether a unified entry has the content of a parameter.
FromParam(e, param) ==
    /\ e.prop \in {"RequiredParam", "OptionalParam"}
    /\ e.name = param.name
    /\ e.ty = param.ty_path
    /\ e.desc = param.description
    /\ (e.prop = "RequiredParam") = param.required

\* Whether a unified entry has the content of an object field.
FromField(e, field) ==
    /\ e.prop \in {"RequiredField", "OptionalField"}
    /\ e.name = field.name
    /\ e.ty = field.ty_path
    /\ e.desc = field.description

\* The places of the input a unified entry can come from: <<1, i>> for the i-th
\* global parameter, <<2, i>> for the i-th local parameter, <<3, i>> for the i-th
\* field.
Origins(builder, e) ==
    {<<1, i>> : i \in {k \in 1..Len(builder.global_params) :
                        FromParam(e, builder.global_params[k])}}
    \cup {<<2, i>> : i \in {k \in 1..Len(builder.local_params) :
                        FromParam(e, builder.local_params[k])}}
    \cup {<<3, i>> : i \in {k \in 1..Len(builder.fields) :
                        FromField(e, builder.fields[k])}}

Before(p, q) == p[1] < q[1] \/ (p[1] = q[1] /\ p[2] < q[2])

\* The first place an entry can come from.
Origin(builder, e) ==
    CHOOSE p \in Origins(builder, e) :
        \A q \in Origins(builder, e) : q = p \/ Before(p, q)

\* C11: the unified list is ordered parameters first, then fields: every entry
\* comes from a place of the input, entries of global parameters precede entries
\* of local parameters, which precede entries of fields, and within each group
\* the entries keep the order of the input sequence.
C11_UnifiedOrder ==
    pc = "struct_fields_iter_done" =>
        /\ \A i \in 1..Len(ret[1]) : Origins(b, ret[1][i]) # {}
        /\ \A i, j \in 1..Len(ret[1]) :
            i < j => Before(Origin(b, ret[1][i]), Origin(b, ret[1][j]))

\* The unifier has returned the entry of a global parameter before the entry of
\* a local one, the field of the builder having collided with one of them.
C11_Witness ==
    /\ pc = "struct_fields_iter_done"
    /\ Len(b.global_params) = 1 /\ Len(b.local_params) = 1 /\ Len(b.fields) = 1
    /\ Len(ret[1]) = 2
    /\ FromParam(ret[1][1], b.global_params[1])
    /\ FromParam(ret[1][2], b.local_params[1])

(***************************************************************************)
(* Properties of the generic list and the planner (checked under           *)
(* SpecRender)                                                             *)
(***************************************************************************)

\* The required entries of the unified list, in its order.
RequiredEntries(builder) ==
    SelectSeq(struct_fields_iter(builder),
              LAMBDA e : e.prop \in {"RequiredField", "RequiredParam"})

\* The camel-cased spelling of every name of the model, computed once.
CamelTable == [n \in Names |-> to_camel_case(n)]

CamelOf(name) == CamelTable[name]

\* A text cut at every separator element.
RECURSIVE SplitOn(_, _, _, _)
SplitOn(text, sep, parts, cur) ==
    IF text = <<>> THEN Append(parts, cur)
    ELSE IF Head(text) = sep
         THEN SplitOn(Tail(text), sep, Append(parts, cur), <<>>)
         ELSE SplitOn(Tail(text), sep, parts, Append(cur, Head(text)))

\* The parameters between the angle brackets of a written generic list.
GenericParams(text) ==
    IF text = <<>> THEN <<>>
    ELSE SplitOn(SubSeq(text, 2, Len(text) - 1), ", ", <<>>, <<>>)

\* A marker without its path and its Missing/Exists decoration.
MarkerName(param) ==
    SelectSeq(param, LAMBDA t : t \notin {"crate::", "generics::", "Missing", "Exists"})

\* The text of the Any slot for an any_value argument.
AnyText(any_value) == IF any_value = <<>> THEN <<"Any">> ELSE any_value[1]

ExistsMarker(builder, name) ==
    builder.helper_module_prefix \o <<"generics::">> \o CamelOf(name)
        \o <<"Exists">>

MissingMarker(builder, name) ==
    builder.helper_module_prefix \o <<"generics::", "Missing">> \o CamelOf(name)

\* C3: needs_container returns true exactly when a global or local parameter is
\* required, or the body is required, a field is required and there is at least
\* one parameter; in particular in the four cases of the container rule.
C3_NeedsContainer ==
    pc = "needs_container" =>
        LET params == b.global_params \o b.local_params
            reqParams == {i \in 1..Len(params) : params[i].required}
            reqFields == {i \in 1..Len(b.fields) : b.fields[i].is_required}
        IN  /\ ret[1] <=>
                \/ reqParams # {}
                \/ b.body_required /\ reqFields # {} /\ Len(params) >= 1
            /\ (reqParams = {} /\ reqFields = {}) => ~ret[1]
            /\ Cardinality(reqParams) = 1 => ret[1]
            /\ (b.body_required /\ reqFields # {} /\ params = <<>>) => ~ret[1]
            /\ (reqParams # {} /\ b.body_required) => ret[1]

\* A container is needed with no required parameter: a required body with a
\* required field next to an optional parameter.
C3_Witness ==
    /\ pc = "needs_container"
    /\ ret = Some(TRUE)
    /\ b.body_required
    /\ Len(b.global_params \o b.local_params) = 1
    /\ \A i \in 1..Len(b.global_params) : ~b.global_params[i].required
    /\ \A i \in 1..Len(b.local_params) : ~b.local_params[i].required

\* The builders of the GET /pets/{id} scenario: one parameter, `id`, required,
\* and no required body.
OnlyRequiredIdParam(builder) ==
    LET params == builder.global_params \o builder.local_params
    IN  /\ Len(params) = 1
        /\ params[1].name = <<"i", "d">>
        /\ params[1].required
        /\ ~builder.body_required

\* Whether a text holds the given elements next to each other.
ContainsSub(text, sub) ==
    \E i \in 1..(Len(text) - Len(sub) + 1) : SubSeq(text, i, i + Len(sub) - 1) = sub

\* Where the declaration of the container struct starts in a rendered builder,
\* 0 when there is none.
ContainerStart(text) ==
    IF \E i \in 1..Len(text) : text[i] = "#[derive(Debug, Default, Clone)]\nstruct "
    THEN CHOOSE i \in 1..Len(text) : text[i] = "#[derive(Debug, Default, Clone)]\nstruct "
    ELSE 0

\* The declaration of the builder struct in a rendered builder.
BuilderDecl(text) ==
    IF ContainerStart(text) = 0 THEN text
    ELSE SubSeq(text, 1, ContainerStart(text) - 1)

\* The declaration of the container struct, empty when there is none.
ContainerDecl(text) ==
    IF ContainerStart(text) = 0 THEN <<>>
    ELSE SubSeq(text, ContainerStart(text), Len(text))

\* The marker field and the data field of the parameter `id`.
IdMarkerField ==
    <<"\n    ", "_param", "_", "i", "d", ": ", "core::marker::PhantomData<",
      "I", "d", ">,">>

IdParamField == <<"\n    param_", "i", "d", ": Option<", "String", ">,">>

\* C4 as stated: such a builder has exactly one required marker (the `id`
\* parameter) and needs_container is false, so the marker lives directly on the
\* builder struct and no inner container is emitted.
C4_Original ==
    /\ (pc = "needs_container" /\ OnlyRequiredIdParam(b)) =>
        /\ Len(RequiredEntries(b)) = 1
        /\ ret = Some(FALSE)
    /\ (pc = "fmt" /\ OnlyRequiredIdParam(b)) =>
        /\ ContainsSub(BuilderDecl(f), IdMarkerField)
        /\ ContainerDecl(f) = <<>>
        /\ ~ContainsSub(f, <<"#[repr(transparent)]\n">>)
        /\ ~ContainsSub(f, <<"\n    inner: ">>)

\* C4: a builder whose only parameter is one required parameter `id` and whose
\* body is not required has exactly one required marker (the `id` parameter), and
\* needs_container is true; so the marker lives on the builder struct, which is
\* rendered #[repr(transparent)] with the `inner` container as its only data
\* field, and `param_id` is emitted inside the container struct.
C4_RequiredParamNeedsContainer ==
    /\ (pc = "needs_container" /\ OnlyRequiredIdParam(b)) =>
        /\ Len(RequiredEntries(b)) = 1
        /\ RequiredEntries(b)[1].name = <<"i", "d">>
        /\ RequiredEntries(b)[1].prop = "RequiredParam"
        /\ ret = Some(TRUE)
    /\ (pc = "fmt" /\ OnlyRequiredIdParam(b)) =>
        /\ ContainsSub(BuilderDecl(f), <<"#[repr(transparent)]\n">>)
        /\ ContainsSub(BuilderDecl(f), <<"\n    inner: ">>)
        /\ ContainsSub(BuilderDecl(f), IdMarkerField)
        /\ ~ContainsSub(BuilderDecl(f), IdParamField)
        /\ ~ContainsSub(BuilderDecl(f), <<"\n    body: self::">>)
        /\ ContainsSub(ContainerDecl(f), IdParamField)
        /\ ~ContainsSub(ContainerDecl(f), IdMarkerField)
        /\ ~ContainsSub(ContainerDecl(f), <<"core::marker::PhantomData<">>)

\* The scenario has been rendered, the object having a required field `id` of
\* its own and a second field.
C4_Witness ==
    /\ pc = "fmt"
    /\ OnlyRequiredIdParam(b)
    /\ Len(b.fields) = 2
    /\ b.fields[1].name = <<"i", "d">> /\ b.fields[1].is_required
    /\ b.fields[2].name # <<"i", "d">>
    /\ ContainerDecl(f) # <<>>

\* C5: in every mode the generic list holds one marker for each required unified
\* property and none for an optional one, in the order of struct_fields_iter,
\* then one Any parameter iff needs_any; the count returned is the number of
\* parameters written, and the brackets are written iff that count is positive.
C5_GenericList ==
    pc = "write_generics_if_necessary" =>
        LET req == RequiredEntries(b)
            ps == GenericParams(f)
            n == Len(req) + (IF b.needs_any THEN 1 ELSE 0)
        IN  /\ ret = Some(n)
            /\ Len(ps) = n
            /\ n = 0 <=> f = <<>>
            /\ n > 0 =>
                /\ f[1] = "<"
                /\ f[Len(f)] = ">"
                /\ \A i \in 2..(Len(f) - 1) : f[i] \notin {"<", ">"}
            /\ \A k \in 1..Len(req) : MarkerName(ps[k]) = CamelOf(req[k].name)
            /\ b.needs_any => ps[n] = AnyText(args[1])

\* A list of two markers and the Any parameter has been written for a builder
\* that also has an optional property.
C5_Witness ==
    /\ pc = "write_generics_if_necessary"
    /\ ret = Some(3)
    /\ b.needs_any
    /\ Len(struct_fields_iter(b)) = 3
    /\ f[1] = "<"

\* C6: in mode ChangeOne(n) the marker of the required property named n is the
\* satisfied marker and every other marker is the plain camel-cased name, which
\* is what Generic mode writes for every marker; at most one marker differs from
\* the Generic list, and none when n names no required property.
C6_ChangeOne ==
    pc = "write_generics_if_necessary" =>
        LET req == RequiredEntries(b)
            ps == GenericParams(f)
        IN  /\ args[2] = <<"Generic">> =>
                \A k \in 1..Len(req) : ps[k] = CamelOf(req[k].name)
            /\ args[2][1] = "ChangeOne" =>
                LET n == args[2][2]
                    g == write_generics_if_necessary(b, <<>>, args[1], <<"Generic">>).f
                IN  /\ \A k \in 1..Len(req) :
                        ps[k] = IF req[k].name = n
                                THEN ExistsMarker(b, n)
                                ELSE CamelOf(req[k].name)
                    /\ Len(ps) = Len(GenericParams(g))
                    /\ Cardinality({k \in 1..Len(ps) : ps[k] # GenericParams(g)[k]}) <= 1
                    /\ (\A k \in 1..Len(req) : req[k].name # n) => f = g

\* ChangeOne has named one of two required properties whose camel-cased names
\* are equal.
C6_Witness ==
    /\ pc = "write_generics_if_necessary"
    /\ args[2][1] = "ChangeOne"
    /\ Len(RequiredEntries(b)) >= 2
    /\ \E k, l \in 1..Len(RequiredEntries(b)) :
        /\ k # l
        /\ RequiredEntries(b)[k].name = args[2][2]
        /\ CamelOf(RequiredEntries(b)[l].name) = CamelOf(args[2][2])

\* C7: in mode ChangeAll every marker is the satisfied marker
\* {prefix}generics::{Name}Exists, in mode ReplaceAll every marker is the missing
\* marker {prefix}generics::Missing{Name}; none is left plain.
C7_ChangeAllReplaceAll ==
    pc = "write_generics_if_necessary" =>
        LET req == RequiredEntries(b)
            ps == GenericParams(f)
        IN  /\ args[2] = <<"ChangeAll">> =>
                \A k \in 1..Len(req) :
                    /\ ps[k] = ExistsMarker(b, req[k].name)
                    /\ ps[k] # CamelOf(req[k].name)
            /\ args[2] = <<"ReplaceAll">> =>
                \A k \in 1..Len(req) :
                    /\ ps[k] = MissingMarker(b, req[k].name)
                    /\ ps[k] # CamelOf(req[k].name)

\* ReplaceAll has written the markers of a required parameter and a required
\* field.
C7_Witness ==
    /\ pc = "write_generics_if_necessary"
    /\ args[2] = <<"ReplaceAll">>
    /\ \E k, l \in 1..Len(RequiredEntries(b)) :
        /\ RequiredEntries(b)[k].prop = "RequiredParam"
        /\ RequiredEntries(b)[l].prop = "RequiredField"

\* C8: when needs_any is true the Any parameter is the last parameter of the
\* list, and its text is the any_value given, or the default placeholder when
\* none is given: a text that does not depend on the mode, so it is the same in
\* Generic, ChangeOne, ChangeAll and ReplaceAll.
C8_AnyIsLast ==
    (pc = "write_generics_if_necessary" /\ b.needs_any) =>
        LET ps == GenericParams(f)
        IN  /\ ps # <<>>
            /\ ps[Len(ps)] = AnyText(args[1])
            /\ \A k \in 1..(Len(ps) - 1) : ps[k] # AnyText(args[1])
            /\ f[Len(f)] = ">"

\* ChangeAll has written two satisfied markers and then the any_value given.
C8_Witness ==
    /\ pc = "write_generics_if_necessary"
    /\ b.needs_any
    /\ args[1] # <<>>
    /\ args[2] = <<"ChangeAll">>
    /\ ret = Some(3)

(***************************************************************************)
(* Properties of write_docs (checked under SpecDocs)                       *)
(***************************************************************************)

\* A text with a backslash before every bracket and nothing else changed.
RECURSIVE Escaped(_)
Escaped(text) ==
    IF text = <<>> THEN <<>>
    ELSE (IF Head(text) \in {"[", "]"} THEN <<"\\", Head(text)>> ELSE <<Head(text)>>)
         \o Escaped(Tail(text))

\* A text without the blanks at its end.
RECURSIVE Stripped(_)
Stripped(text) ==
    IF text # <<>> /\ text[Len(text)] \in {" ", "\t", "\r"}
    THEN Stripped(SubSeq(text, 1, Len(text) - 1))
    ELSE text

\* The source lines of a description.
SourceLines(desc) == SplitOn(desc, "\n", <<>>, <<>>)

\* The doc lines of a written text "\n" line "\n" line ... "\n".
DocLines(text) ==
    LET parts == SplitOn(text, "\n", <<>>, <<>>)
    IN  SubSeq(parts, 2, Len(parts) - 1)

\* The lines are there, one for each source line, each after its indentation
\* and `///`, an empty source line giving a bare `///`.
DocLinesCounted ==
    pc = "write_docs" /\ args[1] # <<>> =>
        LET src == SourceLines(args[1][1])
            out == DocLines(f)
            ind == [i \in 1..(4 * args[2]) |-> " "]
        IN  /\ f[1] = "\n" /\ f[Len(f)] = "\n"
            /\ Len(out) = Len(src)
            /\ \A i \in 1..Len(src) :
                /\ SubSeq(out[i], 1, Len(ind) + 1) = ind \o <<"///">>
                /\ src[i] = <<>> => out[i] = ind \o <<"///">>

\* After `/// ` a line holds the source line, brackets escaped, without the
\* whitespace at its end.
DocLinesEscaped ==
    pc = "write_docs" /\ args[1] # <<>> =>
        LET src == SourceLines(args[1][1])
            out == DocLines(f)
            ind == [i \in 1..(4 * args[2]) |-> " "]
        IN  \A i \in 1..Len(src) :
                src[i] # <<>> =>
                    out[i] = ind \o <<"///", " ">> \o Escaped(Stripped(src[i]))

\* No doc line ends in whitespace.
DocLinesTrimmed ==
    pc = "write_docs" /\ args[1] # <<>> =>
        \A i \in 1..Len(DocLines(f)) :
            DocLines(f)[i][Len(DocLines(f)[i])] \notin {" ", "\t", "\r"}

\* C12: write_docs, given a description of k newline-separated source lines,
\* emits exactly k doc lines, the i-th built from the i-th source line (an empty
\* source line gives a bare `///`); every `[` and `]` is emitted after a
\* backslash and no other character is changed; no emitted doc line ends in
\* whitespace; and nothing is written when the description is absent.
C12_WriteDocs ==
    /\ (pc = "write_docs" /\ args[1] = <<>>) => f = <<>>
    /\ DocLinesCounted
    /\ DocLinesEscaped
    /\ DocLinesTrimmed

(***************************************************************************)
(* Properties of constructor_fn_name (checked under SpecName)              *)
(***************************************************************************)

\* The snake-cased spelling of the operation ids and methods of the model.
SnakeOf(name) ==
    CASE name = <<"g", "e", "t", "P", "e", "t">> -> <<"g", "e", "t", "_", "p", "e", "t">>
      [] name = <<"l", "i", "s", "t">> -> <<"l", "i", "s", "t">>
      [] name = <<"G", "e", "t">> -> <<"g", "e", "t">>
      [] name = <<"P", "o", "s", "t">> -> <<"p", "o", "s", "t">>

\* The decimal spelling of an index below 100.
DecimalOf(n) ==
    LET digit(d) == <<"0", "1", "2", "3", "4", "5", "6", "7", "8", "9">>[d + 1]
    IN  IF n < 10 THEN <<digit(n)>> ELSE <<digit(n \div 10), digit(n % 10)>>

\* The name is resolved by the fixed precedence: operation id, method,
\* numbered method, nothing.
NamePrecedence ==
    pc = "constructor_fn_name" =>
        /\ b.op_id # None => ret[1] = Some(SnakeOf(b.op_id[1]))
        /\ (b.op_id = None /\ b.method # None /\ ~b.multiple_builders_exist) =>
                ret[1] = Some(SnakeOf(b.method[1]))
        /\ (b.op_id = None /\ b.method # None /\ b.multiple_builders_exist) =>
                ret[1] = Some(SnakeOf(b.method[1])
                              \o (IF b.idx > 0 THEN <<"_">> \o DecimalOf(b.idx)
                                  ELSE <<>>))
        /\ ret[1] = None <=> (b.op_id = None /\ b.method = None)

\* The name of the builder that differs from b in its index only.
SiblingName(idx) == constructor_fn_name([b EXCEPT !.idx = idx])

Count(text, token) == Cardinality({i \in 1..Len(text) : text[i] = token})

\* The container rule: a required parameter, or a required body with a required
\* field next to at least one parameter.
ContainerRule(builder) ==
    LET params == builder.global_params \o builder.local_params
    IN  \/ \E i \in 1..Len(params) : params[i].required
        \/ /\ builder.body_required
           /\ \E i \in 1..Len(builder.fields) : builder.fields[i].is_required
           /\ params # <<>>

\* The parameter entries of the unified list, in its order.
ParamEntries(builder) ==
    SelectSeq(struct_fields_iter(builder),
              LAMBDA e : e.prop \in {"RequiredParam", "OptionalParam"})

\* The elements that start a field of a rendered struct.
FieldStarts == {"\n    inner: ", "\n    body: self::", "\n    param_", "\n    "}

FieldCount(text) == Cardinality({i \in 1..Len(text) : text[i] \in FieldStarts})

\* C15: when needs_container is true the outer struct is #[repr(transparent)]
\* and its fields are exactly the one data field `inner` plus one PhantomData
\* marker field per required unified property, while the body field (iff
\* body_required) and every param_ field are emitted only inside the container,
\* which carries no marker field; when needs_container is false no
\* repr(transparent) and no container struct are emitted and the body and param_
\* fields are written directly on the builder struct.
C15_RenderedLayout ==
    pc = "fmt" =>
        LET outer == BuilderDecl(f)
            inner == ContainerDecl(f)
            body == IF b.body_required THEN 1 ELSE 0
        IN  IF ContainerRule(b)
            THEN /\ Count(outer, "#[repr(transparent)]\n") = 1
                 /\ Count(outer, "\n    inner: ") = 1
                 /\ Count(outer, "core::marker::PhantomData<") = Len(RequiredEntries(b))
                 /\ FieldCount(outer) = 1 + Len(RequiredEntries(b))
                 /\ Count(outer, "\n    body: self::") = 0
                 /\ Count(outer, "\n    param_") = 0
                 /\ inner # <<>>
                 /\ Count(inner, "\n    body: self::") = body
                 /\ Count(inner, "\n    param_") = Len(ParamEntries(b))
                 /\ FieldCount(inner) = body + Len(ParamEntries(b))
                 /\ Count(inner, "core::marker::PhantomData<") = 0
            ELSE /\ Count(f, "#[repr(transparent)]\n") = 0
                 /\ inner = <<>>
                 /\ Count(f, "\n    inner: ") = 0
                 /\ Count(f, "\n    body: self::") = body
                 /\ Count(f, "\n    param_") = Len(ParamEntries(b))
                 /\ Count(f, "core::marker::PhantomData<") = Len(RequiredEntries(b))

\* A builder with a container has been rendered: two markers on the builder
\* struct, the body and two parameters in the container.
C15_Witness ==
    /\ pc = "fmt"
    /\ ContainerRule(b)
    /\ b.body_required
    /\ Count(BuilderDecl(f), "core::marker::PhantomData<") = 2
    /\ Count(ContainerDecl(f), "\n    param_") = 2
    /\ Count(ContainerDecl(f), "\n    body: self::") = 1

\* Whether some unified property is a parameter or is required.
HasSuchField(builder) ==
    \E i \in 1..Len(struct_fields_iter(builder)) :
        struct_fields_iter(builder)[i].prop
            \in {"RequiredParam", "OptionalParam", "RequiredField"}

\* C16: needs_container true implies has_atleast_one_field true (which holds iff
\* some unified property is a parameter or is required); therefore the builder
\* declaration is never opened with ` {` and then ended with `;`: it is closed
\* with `}` whenever it was opened with ` {`, and the unit form ending in `;` is
\* emitted exactly when the builder has no such field, no required body and no
\* container.
C16_BracesBalanced ==
    /\ pc = "has_atleast_one_field" =>
        /\ ret[1] <=> HasSuchField(b)
        /\ ContainerRule(b) => ret[1]
    /\ pc = "fmt" =>
        LET outer == BuilderDecl(f)
        IN  /\ Count(outer, " {") = 1 =>
                /\ Count(outer, "\n}\n") = 1
                /\ Count(outer, ";\n") = 0
            /\ Count(outer, " {") + Count(outer, ";\n") = 1
            /\ Count(outer, ";\n") = 1 <=>
                (~HasSuchField(b) /\ ~b.body_required /\ ~ContainerRule(b))
            /\ Count(outer, ";\n") = 1 => outer[Len(outer)] = ";\n"

\* A builder that needs a container for its parameter and has no required body
\* has been rendered, opened and closed with braces.
C16_Witness ==
    /\ pc = "fmt"
    /\ ContainerRule(b)
    /\ ~b.body_required
    /\ Count(BuilderDecl(f), " {") = 1
    /\ Count(BuilderDecl(f), "\n}\n") = 1

====
